---- MODULE Spec2Model ----
(***************************************************************************)
(* anchorpy.program.event: EventParser.parse_logs, the ExecutionContext    *)
(* stack and the LogScanner cursor, modelled as a state machine.           *)
(*                                                                         *)
(* A log line is a sequence of one-character strings, so that str.split,   *)
(* str.startswith, the `in` test and slicing are computed on characters    *)
(* as Python computes them.  Optional[T] is <<>> for None and <<x>> for a  *)
(* value x.                                                                *)
(***************************************************************************)
EXTENDS Integers, Sequences, FiniteSets, TLC

\* ------------------------------------------------------------------ bounds
\* Longest input list handed to parse_logs.
MaxLogs == 4

\* ------------------------------------------------------- literal strings
None == <<>>
Some(x) == <<x>>

SP == <<" ">>
COLON == <<":">>
kwProgram == <<"P", "r", "o", "g", "r", "a", "m">>
kwInvoke == <<"i", "n", "v", "o", "k", "e">>
kwSuccess == <<"s", "u", "c", "c", "e", "s", "s">>
kwLog == <<"l", "o", "g">>
kwCpi == <<"c", "p", "i">>

\* "Program " : the marker ExecutionContext and handle_system_log split on
ProgramMarker == kwProgram \o SP
\* " invoke [" : the marker ExecutionContext.__init__ splits on
InvokeBracket == SP \o kwInvoke \o SP \o <<"[">>
\* "Program log:" : the prefix handle_program_log tests with startswith
ProgramLogPrefix == kwProgram \o SP \o kwLog \o COLON

\* (variant of LOG_START_INDEX: the prefix counted one character too long)
LOG_START_INDEX_OffByOne == Len(kwProgram \o SP \o kwLog \o COLON \o SP) + 1

\* LOG_START_INDEX = len("Program log: ")
LOG_START_INDEX == Len(kwProgram \o SP \o kwLog \o COLON \o SP)

\* ------------------------------------------------------ str operations
\* s[i:] of Python, i counted from 0
SliceFrom(s, i) == SubSeq(s, i + 1, Len(s))

\* s.startswith(p)
StartsWith(s, p) == Len(p) <= Len(s) /\ SubSeq(s, 1, Len(p)) = p

\* positions (from 1) at which sep occurs in s
Occurrences(s, sep) ==
  {i \in 1..(Len(s) - Len(sep) + 1) : SubSeq(s, i, i + Len(sep) - 1) = sep}

\* p in s
Contains(s, p) == Occurrences(s, p) # {}

Min(S) == CHOOSE x \in S : \A y \in S : x <= y

\* s.split(sep): the list of the pieces between the non-overlapping
\* occurrences of sep, scanned left to right; always at least one piece
RECURSIVE Split(_, _)
Split(s, sep) ==
  IF Occurrences(s, sep) = {}
  THEN <<s>>
  ELSE LET i == Min(Occurrences(s, sep))
       IN <<SubSeq(s, 1, i - 1)>> \o Split(SubSeq(s, i + Len(sep), Len(s)), sep)

\* ----------------------------------------------------------- b64decode
\* The only non-ASCII code point of the model, written by its name.
NonAscii == {"U+00E9"}
PAD == "="
B64Alphabet ==
  {"A", "B", "C", "D", "E", "F", "G", "H", "I", "J", "K", "L", "M",
   "N", "O", "P", "Q", "R", "S", "T", "U", "V", "W", "X", "Y", "Z",
   "a", "b", "c", "d", "e", "f", "g", "h", "i", "j", "k", "l", "m",
   "n", "o", "p", "q", "r", "s", "t", "u", "v", "w", "x", "y", "z",
   "0", "1", "2", "3", "4", "5", "6", "7", "8", "9", "+", "/"}

\* binascii.a2b_base64 without strict mode: characters outside the
\* alphabet are skipped, a pad that completes a quad ends the input, and
\* data that stops inside a quad is an error.  The decoded bytes are
\* represented by the data characters (sextets) that produced them.
RECURSIVE a2b_base64(_, _, _, _, _)
a2b_base64(s, i, quad_pos, pads, out) ==
  IF i > Len(s)
  THEN [ok |-> quad_pos = 0, bytes |-> out]
  ELSE IF s[i] = PAD
       THEN IF quad_pos >= 2 /\ quad_pos + pads + 1 >= 4
            THEN [ok |-> TRUE, bytes |-> out]
            ELSE a2b_base64(s, i + 1, quad_pos,
                            IF quad_pos >= 2 THEN pads + 1 ELSE pads, out)
       ELSE IF s[i] \notin B64Alphabet
            THEN a2b_base64(s, i + 1, quad_pos, pads, out)
            ELSE a2b_base64(s, i + 1, (quad_pos + 1) % 4, 0, Append(out, s[i]))

\* base64.b64decode(str): a str with a non-ASCII character is refused with
\* a plain ValueError before any decoding; otherwise binascii.Error or the
\* bytes.
b64decode(s) ==
  IF \E i \in 1..Len(s) : s[i] \in NonAscii
  THEN [raised |-> "ValueError", bytes |-> <<>>]
  ELSE LET r == a2b_base64(s, 1, 0, 0, <<>>)
       IN IF r.ok THEN [raised |-> "none", bytes |-> r.bytes]
          ELSE [raised |-> "binascii.Error", bytes |-> <<>>]

\* coder.events.parse: a pure function of the bytes; it recognises the
\* payloads that start with the event discriminator and returns None for
\* every other byte string.
EventDiscriminator == <<"E", "V">>
events_parse(bytes) ==
  IF StartsWith(bytes, EventDiscriminator) THEN Some(bytes) ELSE None

\* ------------------------------------------------------------ the inputs
\* str(program_id) of the parser under test; one letter stands for a
\* base-58 key.
idA == <<"A">>
idB == <<"B">>
ProgramIds == {idA, idB}

kwFailed == <<"f", "a", "i", "l", "e", "d">>
kwConsumed == <<"c", "o", "n", "s", "u", "m", "e", "d">>

\* "Program A invoke [1]", "Program B invoke [2]"
lnInvokeA == ProgramMarker \o idA \o InvokeBracket \o <<"1", "]">>
lnInvokeB == ProgramMarker \o idB \o InvokeBracket \o <<"2", "]">>
\* "Program A success", "Program B success"
lnSuccessA == ProgramMarker \o idA \o SP \o kwSuccess
lnSuccessB == ProgramMarker \o idB \o SP \o kwSuccess
\* "Program log: EVAA": base64 of an event the coder recognises
ExampleEvent == <<"E", "V", "A", "A">>
lnLogEvent == ProgramLogPrefix \o SP \o ExampleEvent
\* "Program log: AAAA": valid base64 the coder does not recognise
lnLogOther == ProgramLogPrefix \o SP \o <<"A", "A", "A", "A">>
\* "Program log: AA!": not base64 (data stops inside a quad)
lnLogBad == ProgramLogPrefix \o SP \o <<"A", "A", "!">>
\* "Program log: <U+00E9>": a message with a non-ASCII character
lnLogNonAscii == ProgramLogPrefix \o SP \o <<"U+00E9">>
\* "Program B failed: x"
lnFailedB == ProgramMarker \o idB \o SP \o kwFailed \o COLON \o SP \o <<"x">>
\* "Program B consumed 5 units"
lnConsumedB == ProgramMarker \o idB \o SP \o kwConsumed \o SP \o <<"5">>
                 \o SP \o <<"u", "n", "i", "t", "s">>
\* "hello world"
lnHello == <<"h", "e", "l", "l", "o">> \o SP \o <<"w", "o", "r", "l", "d">>

Lines == {lnInvokeA, lnInvokeB, lnSuccessA, lnSuccessB, lnLogEvent,
          lnLogOther, lnLogBad, lnLogNonAscii, lnFailedB, lnConsumedB,
          lnHello}

\* every list of at most n lines
RECURSIVE LogLists(_)
LogLists(n) ==
  IF n = 0 THEN {<<>>}
  ELSE LET shorter == LogLists(n - 1)
       IN shorter \cup {Append(l, x) : l \in {m \in shorter : Len(m) = n - 1},
                                       x \in Lines}

\* ------------------------------------------------------ ExecutionContext
\* ExecutionContext.__init__: the text between the first "Program " and
\* the next " invoke [" (or the end of the line) seeds the stack.  None
\* has no split (AttributeError); a line without "Program " is the
\* IndexError turned into ValueError.
ExecutionContext_init(first) ==
  IF first = None
  THEN [raised |-> "AttributeError", stack |-> <<>>]
  ELSE LET parts == Split(first[1], ProgramMarker)
       IN IF Len(parts) < 2
          THEN [raised |-> "ValueError", stack |-> <<>>]
          ELSE [raised |-> "none",
                stack |-> <<Split(parts[2], InvokeBracket)[1]>>]

\* ExecutionContext.program
program(stack) == stack[Len(stack)]

\* (variant of push: the new program overwrites the top frame)
push_Overwrite(stack, new_program) ==
  IF stack = <<>> THEN <<new_program>>
  ELSE [stack EXCEPT ![Len(stack)] = new_program]

\* ExecutionContext.push
push(stack, new_program) == Append(stack, new_program)

\* (variant of pop: the stack is left as it is)
pop_Keep(stack) == [raised |-> "none", stack |-> stack]

\* (variant of pop: pop(0), the outermost frame is removed)
pop_Bottom(stack) ==
  IF stack = <<>>
  THEN [raised |-> "IndexError", stack |-> stack]
  ELSE [raised |-> "none", stack |-> Tail(stack)]

\* (variant of pop: an empty stack is silently ignored)
pop_Silent(stack) ==
  IF stack = <<>>
  THEN [raised |-> "none", stack |-> stack]
  ELSE [raised |-> "none", stack |-> SubSeq(stack, 1, Len(stack) - 1)]

\* ExecutionContext.pop: list.pop() of an empty list raises IndexError
pop(stack) ==
  IF stack = <<>>
  THEN [raised |-> "IndexError", stack |-> stack]
  ELSE [raised |-> "none", stack |-> SubSeq(stack, 1, Len(stack) - 1)]

\* ----------------------------------------------------------- LogScanner
\* (variant of to_next: self.logs[2:], the line after the returned one is
\* dropped)
to_next_Skip(ls) ==
  IF ls # <<>>
  THEN [log |-> Some(Head(ls)), logs |-> SubSeq(ls, 3, Len(ls))]
  ELSE [log |-> None, logs |-> ls]

\* LogScanner.to_next: the head of the remaining lines and the tail
to_next(ls) ==
  IF ls # <<>>
  THEN [log |-> Some(Head(ls)), logs |-> Tail(ls)]
  ELSE [log |-> None, logs |-> ls]

\* ---------------------------------------------------------- EventParser
Outcome(r, e, n, p, b) ==
  [raised |-> r, event |-> e, new_program |-> n, did_pop |-> p, parsed |-> b]

\* (variant of handle_system_log: a log-start without the marker or without
\* a second token is downgraded to an unrelated line)
handle_system_log_Tolerant(pid, log) ==
  LET log_start == Split(log, COLON)[1]
      parts == Split(log_start, ProgramMarker)
      toks == Split(parts[2], SP)
  IN IF Len(parts) < 2 \/ Len(toks) < 2
     THEN Outcome("none", None, None, FALSE, None)
     ELSE IF toks[2] = kwSuccess
          THEN Outcome("none", None, None, TRUE, None)
          ELSE IF StartsWith(log_start, ProgramMarker \o pid \o SP \o kwInvoke)
               THEN Outcome("none", None, Some(pid), FALSE, None)
               ELSE IF Contains(log_start, kwInvoke)
                    THEN Outcome("none", None, Some(kwCpi), FALSE, None)
                    ELSE Outcome("none", None, None, FALSE, None)

\* (variant of handle_system_log: every invoked program is pushed as the
\* target)
handle_system_log_AllTarget(pid, log) ==
  LET log_start == Split(log, COLON)[1]
      parts == Split(log_start, ProgramMarker)
      toks == Split(parts[2], SP)
  IN IF Len(parts) < 2 \/ Len(toks) < 2
     THEN Outcome("IndexError", None, None, FALSE, None)
     ELSE IF toks[2] = kwSuccess
          THEN Outcome("none", None, None, TRUE, None)
          ELSE IF Contains(log_start, kwInvoke)
               THEN Outcome("none", None, Some(pid), FALSE, None)
               ELSE Outcome("none", None, None, FALSE, None)

\* (variant of handle_system_log: the test for "invoke" is missing, every
\* line that is neither an end nor the target's start pushes the marker)
handle_system_log_CpiDefault(pid, log) ==
  LET log_start == Split(log, COLON)[1]
      parts == Split(log_start, ProgramMarker)
      toks == Split(parts[2], SP)
  IN IF Len(parts) < 2 \/ Len(toks) < 2
     THEN Outcome("IndexError", None, None, FALSE, None)
     ELSE IF toks[2] = kwSuccess
          THEN Outcome("none", None, None, TRUE, None)
          ELSE IF StartsWith(log_start, ProgramMarker \o pid \o SP \o kwInvoke)
               THEN Outcome("none", None, Some(pid), FALSE, None)
               ELSE Outcome("none", None, Some(kwCpi), FALSE, None)

\* (variant of handle_system_log: rule 2a reads the first token after the
\* marker, index 0 instead of 1)
handle_system_log_FirstToken(pid, log) ==
  LET log_start == Split(log, COLON)[1]
      parts == Split(log_start, ProgramMarker)
      toks == Split(parts[2], SP)
  IN IF Len(parts) < 2
     THEN Outcome("IndexError", None, None, FALSE, None)
     ELSE IF toks[1] = kwSuccess
          THEN Outcome("none", None, None, TRUE, None)
          ELSE IF StartsWith(log_start, ProgramMarker \o pid \o SP \o kwInvoke)
               THEN Outcome("none", None, Some(pid), FALSE, None)
               ELSE IF Contains(log_start, kwInvoke)
                    THEN Outcome("none", None, Some(kwCpi), FALSE, None)
                    ELSE Outcome("none", None, None, FALSE, None)

\* (variant of handle_system_log: only a success line that names the
\* target is an invocation-end)
handle_system_log_TargetSuccessOnly(pid, log) ==
  LET log_start == Split(log, COLON)[1]
      parts == Split(log_start, ProgramMarker)
      toks == Split(parts[2], SP)
  IN IF Len(parts) < 2 \/ Len(toks) < 2
     THEN Outcome("IndexError", None, None, FALSE, None)
     ELSE IF toks[2] = kwSuccess /\ toks[1] = pid
          THEN Outcome("none", None, None, TRUE, None)
          ELSE IF StartsWith(log_start, ProgramMarker \o pid \o SP \o kwInvoke)
               THEN Outcome("none", None, Some(pid), FALSE, None)
               ELSE IF Contains(log_start, kwInvoke)
                    THEN Outcome("none", None, Some(kwCpi), FALSE, None)
                    ELSE Outcome("none", None, None, FALSE, None)

\* EventParser.handle_system_log
handle_system_log(pid, log) ==
  LET log_start == Split(log, COLON)[1]
      parts == Split(log_start, ProgramMarker)
      toks == Split(parts[2], SP)
  IN IF Len(parts) < 2 \/ Len(toks) < 2
     THEN Outcome("IndexError", None, None, FALSE, None)
     ELSE IF toks[2] = kwSuccess
          THEN Outcome("none", None, None, TRUE, None)
          ELSE IF StartsWith(log_start, ProgramMarker \o pid \o SP \o kwInvoke)
               THEN Outcome("none", None, Some(pid), FALSE, None)
               ELSE IF Contains(log_start, kwInvoke)
                    THEN Outcome("none", None, Some(kwCpi), FALSE, None)
                    ELSE Outcome("none", None, None, FALSE, None)

\* (variant of handle_program_log: a payload that is not base64 falls
\* through to handle_system_log)
handle_program_log_FallThrough(pid, log) ==
  IF StartsWith(log, ProgramLogPrefix)
  THEN LET decoded == b64decode(SliceFrom(log, LOG_START_INDEX))
       IN IF decoded.raised = "binascii.Error"
          THEN handle_system_log(pid, log)
          ELSE IF decoded.raised # "none"
               THEN Outcome(decoded.raised, None, None, FALSE, None)
               ELSE Outcome("none", events_parse(decoded.bytes), None, FALSE,
                            Some(decoded.bytes))
  ELSE handle_system_log(pid, log)

\* EventParser.handle_program_log; parsed is the argument of the call of
\* coder.events.parse, None when it is not called
handle_program_log(pid, log) ==
  IF StartsWith(log, ProgramLogPrefix)
  THEN LET decoded == b64decode(SliceFrom(log, LOG_START_INDEX))
       IN IF decoded.raised = "binascii.Error"
          THEN Outcome("none", None, None, FALSE, None)
          ELSE IF decoded.raised # "none"
               THEN Outcome(decoded.raised, None, None, FALSE, None)
               ELSE Outcome("none", events_parse(decoded.bytes), None, FALSE,
                            Some(decoded.bytes))
  ELSE handle_system_log(pid, log)

\* (variant of handle_log: the executing program is not consulted)
handle_log_AnyFrame(pid, stack, log) == handle_program_log(pid, log)

\* (variant of handle_log: no test for the empty stack, so that
\* execution.program() raises IndexError on it)
handle_log_NoGuard(pid, stack, log) ==
  IF stack = <<>>
  THEN Outcome("IndexError", None, None, FALSE, None)
  ELSE IF program(stack) = pid
       THEN handle_program_log(pid, log)
       ELSE handle_system_log(pid, log)

\* EventParser.handle_log
handle_log(pid, stack, log) ==
  IF stack # <<>> /\ program(stack) = pid
  THEN handle_program_log(pid, log)
  ELSE handle_system_log(pid, log)

\* ---------------------------------------------------------------- state
VARIABLES
  program_id,  \* EventParser.program_id, as str
  input,       \* the list parse_logs was called with (never changes)
  logs,        \* LogScanner.logs: the lines not yet returned
  log,         \* parse_logs' local `log`: Optional line
  stack,       \* ExecutionContext.stack
  pc,          \* "init", "loop", "done" (returned) or "error" (raised)
  error,       \* the exception parse_logs raised, "none" if none
  parsed,      \* the calls of coder.events.parse: [bytes, at]
  sink,        \* the calls of callback: [event, at, seen, stack]
  classified,  \* the stack at each call of handle_log, in order
  handled,     \* the line given to each call of handle_log, in order
  pushes,      \* calls of execution.push made by the loop
  pops         \* calls of execution.pop made by the loop that returned

vars == <<program_id, input, logs, log, stack, pc, error, parsed, sink,
          classified, handled, pushes, pops>>

\* index in input of the line held by `log`
At == Len(input) - Len(logs)

Init ==
  /\ program_id \in ProgramIds
  /\ input \in LogLists(MaxLogs)
  /\ logs = input
  /\ log = None
  /\ stack = <<>>
  /\ pc = "init"
  /\ error = "none"
  /\ parsed = <<>>
  /\ sink = <<>>
  /\ classified = <<>>
  /\ handled = <<>>
  /\ pushes = 0
  /\ pops = 0

\* parse_logs, lines 37-39: the scanner, the execution context from the
\* first line, and the first line of the loop
Construct ==
  /\ pc = "init"
  /\ \E ctx \in {ExecutionContext_init(to_next(logs).log)} :
     LET first == to_next(logs)
         nxt == to_next(first.logs)
     IN IF ctx.raised # "none"
        THEN /\ pc' = "error"
             /\ error' = ctx.raised
             /\ logs' = first.logs
             /\ UNCHANGED <<log, stack>>
        ELSE /\ pc' = "loop"
             /\ stack' = ctx.stack
             /\ log' = nxt.log
             /\ logs' = nxt.logs
             /\ UNCHANGED error
  /\ UNCHANGED <<program_id, input, parsed, sink, classified, handled,
                 pushes, pops>>

\* parse_logs, lines 40-48: one iteration of the loop.  handle_log, then
\* the callback, then the push, then the pop, then to_next; an exception
\* leaves what was done before it and skips the rest.
LoopBody ==
  /\ pc = "loop"
  /\ log # None
  /\ \E r \in {handle_log(program_id, stack, log[1])} :
     LET calls == Append(classified, stack)
         do_push == r.raised = "none" /\ r.new_program # None
         pushed == IF do_push THEN push(stack, r.new_program[1]) ELSE stack
         popped == IF r.raised = "none" /\ r.did_pop THEN pop(pushed)
                   ELSE [raised |-> "none", stack |-> pushed]
         raised == IF r.raised # "none" THEN r.raised ELSE popped.raised
         nxt == to_next(logs)
     IN /\ classified' = calls
        /\ handled' = Append(handled, log[1])
        /\ parsed' = IF r.parsed # None
                     THEN Append(parsed, [bytes |-> r.parsed[1], at |-> At])
                     ELSE parsed
        /\ sink' = IF r.raised = "none" /\ r.event # None
                   THEN Append(sink, [event |-> r.event[1], at |-> At,
                                      seen |-> Len(calls), stack |-> stack])
                   ELSE sink
        /\ pushes' = IF do_push THEN pushes + 1 ELSE pushes
        /\ pops' = IF r.raised = "none" /\ r.did_pop /\ popped.raised = "none"
                   THEN pops + 1 ELSE pops
        /\ stack' = popped.stack
        /\ IF raised # "none"
           THEN /\ pc' = "error"
                /\ error' = raised
                /\ UNCHANGED <<log, logs>>
           ELSE /\ log' = nxt.log
                /\ logs' = nxt.logs
                /\ UNCHANGED <<pc, error>>
  /\ UNCHANGED <<program_id, input>>

\* parse_logs, line 40: the scanner is exhausted and parse_logs returns
Return ==
  /\ pc = "loop"
  /\ log = None
  /\ pc' = "done"
  /\ UNCHANGED <<program_id, input, logs, log, stack, error, parsed, sink,
                 classified, handled, pushes, pops>>

Next == Construct \/ LoopBody \/ Return

Spec == Init /\ [][Next]_vars

TypeOK ==
  /\ pc \in {"init", "loop", "done", "error"}
  /\ error \in {"none", "AttributeError", "ValueError", "IndexError"}
  /\ Len(logs) <= Len(input)
  /\ (pc = "error") = (error # "none")

\* ------------------------------------------------ vocabulary of the claims
\* The kinds of line, by enumeration of the inputs.
\* lines that begin with "Program log:"
AuthoredLines == {lnLogEvent, lnLogOther, lnLogBad, lnLogNonAscii}
\* ... whose payload is base64 of an event the coder recognises
EventLines == {lnLogEvent}
\* ... whose payload b64decode refuses
UndecodableLines == {lnLogBad, lnLogNonAscii}
\* lines of the shape "Program <id> invoke [<n>]"
StartLines == {lnInvokeA, lnInvokeB}
\* lines of the shape "Program <id> success"
SuccessLines == {lnSuccessA, lnSuccessB}
\* lines that report the end of an invocation, by success or by failure
FinishLines == SuccessLines \cup {lnFailedB}

\* the target is the executing program of stack st
TargetOnTop(st) == st # <<>> /\ st[Len(st)] = program_id

\* The k-th call of handle_log handles input[k + 1] on stack classified[k].
Handled == 1..Len(classified)
\* that call, or the pop that followed it, raised
Raised(k) == k = Len(classified) /\ pc = "error"
\* the stack once the iteration of the k-th call is over
After(k) == IF k < Len(classified) THEN classified[k + 1] ELSE stack
\* sink and decoder calls made while input[i] was the current line
SinkCallsAt(i) == {j \in 1..Len(sink) : sink[j].at = i}
DecoderCallsAt(i) == {j \in 1..Len(parsed) : parsed[j].at = i}

\* invocations opened minus invocations closed by success in l[a..b]
Depth(l, a, b) ==
  Cardinality({i \in a..b : l[i] \in StartLines})
    - Cardinality({i \in a..b : l[i] \in SuccessLines})

\* ------------------------------------------------------------------- C1
ExampleCrossTalk == <<lnInvokeA, lnInvokeB, lnLogEvent>>
HasPrefix(l, p) == Len(l) >= Len(p) /\ SubSeq(l, 1, Len(p)) = p

\* C1 (cross-talk isolation): a line that begins with "Program log:" and
\* is handled while the top of the stack is not the target (or the stack
\* is empty) is never handed to coder.events.parse and causes no call of
\* the sink; with target A, a log that starts "Program A invoke [1]",
\* "Program B invoke [2]", "Program log: <base64 event>" delivers no
\* event at all.
C1_CrossTalkIsolation ==
  /\ \A k \in Handled :
       (input[k + 1] \in AuthoredLines /\ ~TargetOnTop(classified[k]))
         => DecoderCallsAt(k + 1) = {} /\ SinkCallsAt(k + 1) = {}
  /\ (program_id = idA /\ HasPrefix(input, ExampleCrossTalk))
       => sink = <<>>

\* C1 witness: the example's message line has been handled under B's frame.
C1_Witness ==
  /\ program_id = idA
  /\ HasPrefix(input, ExampleCrossTalk)
  /\ Len(classified) = 2
  /\ ~TargetOnTop(classified[2])

\* ------------------------------------------------------------------- C2
\* the k-th handled line is an event line handled with the target on top
Deliverable(k) == TargetOnTop(classified[k]) /\ input[k + 1] \in EventLines

\* C2 (event delivery order): the sink is called exactly once for every
\* line that is handled while the target is on top, begins with
\* "Program log:" and carries a payload the decoder turns into an event,
\* and for no other line; the calls are in line order; each call is made
\* when exactly the lines up to its own have been classified and on the
\* stack its line was classified on; a scan that ends with exactly one
\* such line has made exactly one call.
C2_EventDeliveryOrder ==
  /\ \A k \in Handled :
       Cardinality(SinkCallsAt(k + 1)) = IF Deliverable(k) THEN 1 ELSE 0
  /\ \A j \in 1..Len(sink) : sink[j].at - 1 \in Handled
  /\ \A i, j \in 1..Len(sink) : i < j => sink[i].at < sink[j].at
  /\ \A j \in 1..Len(sink) :
       /\ sink[j].seen = sink[j].at - 1
       /\ sink[j].stack = classified[sink[j].at - 1]
       /\ sink[j].event = ExampleEvent
  /\ (pc = "done" /\ Cardinality({k \in Handled : Deliverable(k)}) = 1)
       => Len(sink) = 1

\* C2 witness: a scan that returned after two deliveries.
C2_Witness ==
  /\ pc = "done"
  /\ Len(sink) = 2
  /\ Cardinality({k \in Handled : Deliverable(k)}) = 2

\* ------------------------------------------------------------------- C3
\* C3 (initial-line rejection): whenever the first line does not have the
\* shape "Program <id> invoke [", parse_logs raises ValueError before any
\* later line is handled and the sink is never called.
C3_InitialLineRejection ==
  (input # <<>> /\ input[1] \notin StartLines /\ pc # "init")
    => /\ pc = "error"
       /\ error = "ValueError"
       /\ classified = <<>>
       /\ sink = <<>>

\* ------------------------------------------------------------------- C4
\* C4 (empty input): parse_logs of an empty list raises ValueError, the
\* error of a malformed first line, and the sink is never called.
C4_EmptyInput ==
  (input = <<>> /\ pc # "init")
    => /\ pc = "error"
       /\ error = "ValueError"
       /\ sink = <<>>

\* ------------------------------------------------------------------- C5
\* A well-formed log: the first line opens the outermost invocation, every
\* later line leaves at least one invocation open until the last line, and
\* the last line closes the outermost one ("Program <id> success" closes).
WellFormed(l) ==
  /\ Len(l) >= 2
  /\ l[1] \in StartLines
  /\ \A k \in 1..(Len(l) - 1) : Depth(l, 1, k) >= 1
  /\ Depth(l, 1, Len(l)) = 0

\* C5 as claimed: on a well-formed log the stack depth is at least 1
\* whenever a line is classified and exactly 1 when the scan ends, the
\* loop having pushed as often as it popped.
C5_StackBalanceAsClaimed ==
  WellFormed(input)
    => /\ \A k \in Handled : Len(classified[k]) >= 1
       /\ pc = "done" => (Len(stack) = 1 /\ pushes = pops)

\* C5 (stack balance, amended): on a well-formed log the stack depth is at
\* least 1 whenever a line is classified, and when the scan ends without
\* an exception the stack is empty: the last line pops the frame that the
\* first line seeded, so the loop has popped once more than it pushed.
C5_StackBalance ==
  WellFormed(input)
    => /\ \A k \in Handled : Len(classified[k]) >= 1
       /\ pc = "done" => (Len(stack) = 0 /\ pops = pushes + 1)

\* C5 witness: a well-formed log with a nested invocation, scanned to the
\* end.
C5_Witness ==
  /\ WellFormed(input)
  /\ pc = "done"
  /\ pushes >= 1

\* ------------------------------------------------------------------- C6
\* Every "Program <id> success" line closes an invocation opened earlier;
\* several top-level invocations may follow one another.
EndsClose(l) ==
  /\ l # <<>>
  /\ l[1] \in StartLines
  /\ \A k \in 1..Len(l) : Depth(l, 1, k) >= 0

\* C6 as claimed: on such a log the stack is non-empty at every call of
\* handle_log.
C6_NonEmptyAsClaimed ==
  EndsClose(input) => \A k \in Handled : classified[k] # <<>>

\* C6 (non-empty stack, amended): on such a log the stack depth at every
\* call of handle_log is the number of invocations open at that line, so
\* the stack is non-empty exactly while an invocation is open and empty
\* for the lines handled after a top-level invocation has closed and
\* before the next one has opened.
C6_NonEmptyWhileOpen ==
  EndsClose(input)
    => \A k \in Handled : Len(classified[k]) = Depth(input, 1, k)

\* C6 witness: a second top-level invocation is classified on the empty
\* stack and is on the stack for the line after it.
C6_Witness ==
  /\ EndsClose(input)
  /\ Len(classified) = 3
  /\ classified[2] = <<>>
  /\ classified[3] # <<>>

\* ------------------------------------------------------------------- C7
\* C7 (invocation-end covers success and failure): a line that reports the
\* end of the topmost invocation, "Program <id> success" or
\* "Program <id> failed: <reason>", raises nothing and pops exactly one
\* frame.
C7_InvocationEnd ==
  \A k \in Handled :
    (input[k + 1] \in FinishLines /\ classified[k] # <<>>)
      => /\ ~Raised(k)
         /\ After(k) = SubSeq(classified[k], 1, Len(classified[k]) - 1)

\* ------------------------------------------------------------------- C8
\* C8 (undecodable payload tolerance): with the target on top, a
\* "Program log:" line whose payload b64decode refuses raises nothing,
\* reaches neither the decoder nor the sink, leaves the stack as it was,
\* and the scan goes on to the next line.
C8_UndecodableTolerated ==
  \A k \in Handled :
    (TargetOnTop(classified[k]) /\ input[k + 1] \in UndecodableLines)
      => /\ ~Raised(k)
         /\ DecoderCallsAt(k + 1) = {}
         /\ SinkCallsAt(k + 1) = {}
         /\ After(k) = classified[k]
         /\ (k = Len(classified)
               => log = IF k + 2 <= Len(input) THEN Some(input[k + 2])
                        ELSE None)

\* ------------------------------------------------------------------- C9
\* line b closes the invocation that line a opened, the lines between them
\* being balanced
Matching(l, a, b) ==
  /\ a < b
  /\ l[a] \in StartLines
  /\ l[b] \in SuccessLines
  /\ \A m \in a..(b - 1) : Depth(l, a, m) >= 1
  /\ Depth(l, a, b) = 0

ExampleRoundTrip == <<lnInvokeA, lnInvokeB, lnSuccessB, lnLogEvent>>

\* C9 (push/pop round trip): when a nested invocation-start line was
\* handled on a stack with X on top and its matching "success" line has
\* been handled, the stack is the one the start line was handled on, top X
\* included; with target A, "Program A invoke [1]", "Program B invoke [2]",
\* "Program B success", "Program log: <base64 event>" delivers the event of
\* the fourth line exactly once.
C9_PushPopRoundTrip ==
  /\ \A j, k \in Handled :
       (Matching(input, j + 1, k + 1) /\ classified[j] # <<>>)
         => /\ ~Raised(k)
            /\ After(k) = classified[j]
            /\ After(k)[Len(After(k))] = classified[j][Len(classified[j])]
  /\ (program_id = idA /\ HasPrefix(input, ExampleRoundTrip))
       => /\ Len(classified) < 3 => sink = <<>>
          /\ Len(classified) >= 3 => Cardinality(SinkCallsAt(4)) = 1

\* C9 witness: the example, its event line handled after B's frame was
\* popped.
C9_Witness ==
  /\ program_id = idA
  /\ HasPrefix(input, ExampleRoundTrip)
  /\ Len(classified) = 3
  /\ classified[3] = classified[1]

\* ------------------------------------------------------------------ C10
\* C10 (EmptyStack is fatal): a "Program <id> success" line handled on an
\* empty stack makes parse_logs raise (IndexError of list.pop); it is the
\* last line handled and the scanner does not advance past it.
C10_EmptyStackFatal ==
  \A k \in Handled :
    (classified[k] = <<>> /\ input[k + 1] \in SuccessLines)
      => /\ k = Len(classified)
         /\ pc = "error"
         /\ error = "IndexError"
         /\ At = k + 1
         /\ stack = <<>>

\* C10 witness: parse_logs has raised on a success line met on the empty
\* stack.
C10_Witness ==
  /\ pc = "error"
  /\ classified # <<>>
  /\ classified[Len(classified)] = <<>>
  /\ input[Len(classified) + 1] \in SuccessLines

\* ------------------------------------------------------------------ C11
\* lines whose log-start has no "Program " marker
NoMarkerLines == {lnHello}

\* rules 2a-2d are applied to the k-th handled line and its log-start has
\* no "Program " marker ("hello world") or no second token ("Program log",
\* reached only when the target is not on top)
Malformed(k) ==
  \/ input[k + 1] \in NoMarkerLines
  \/ input[k + 1] \in AuthoredLines /\ ~TargetOnTop(classified[k])

\* C11 (mid-stream malformed line): a line to which rules 2a-2d are applied
\* and whose log-start lacks the "Program " marker or a second token makes
\* parse_logs raise at that line: it is the last line handled, the scanner
\* does not advance, the stack is left as it was, no event of that or a
\* later line is in the sink, and every event delivered before it is
\* still there.
C11_MalformedFatal ==
  \A k \in Handled :
    Malformed(k)
      => /\ k = Len(classified)
         /\ pc = "error"
         /\ error = "IndexError"
         /\ At = k + 1
         /\ stack = classified[k]
         /\ \A j \in 1..Len(sink) : sink[j].at <= k
         /\ \A i \in 1..(k - 1) :
              Deliverable(i) => Cardinality(SinkCallsAt(i + 1)) = 1

\* C11 witness: parse_logs raised on a malformed line after an event had
\* been delivered.
C11_Witness ==
  /\ pc = "error"
  /\ classified # <<>>
  /\ Malformed(Len(classified))
  /\ sink # <<>>

\* ------------------------------------------------------------------ C12
\* the invocation-start line of the target
TargetStart == IF program_id = idA THEN lnInvokeA ELSE lnInvokeB

\* lines of the shape "Program <id> <token> ..." that neither end nor start
\* an invocation for rules 2a-2d
UnrelatedLines == {lnFailedB, lnConsumedB}

\* the stack effect rules 2a-2d give for a line that does not begin with
\* "Program log:", by enumeration of the inputs
Rule2Effect(l) ==
  IF l \in SuccessLines THEN "pop"
  ELSE IF l = TargetStart THEN "push target"
  ELSE IF l \in StartLines THEN "push cpi"
  ELSE IF l \in UnrelatedLines THEN "none"
  ELSE "error"

\* the stack effect observed for the k-th handled line
Effect(k) ==
  IF Raised(k) THEN "error"
  ELSE IF After(k) = Append(classified[k], program_id) THEN "push target"
  ELSE IF After(k) = Append(classified[k], kwCpi) THEN "push cpi"
  ELSE IF classified[k] # <<>>
          /\ After(k) = SubSeq(classified[k], 1, Len(classified[k]) - 1)
       THEN "pop"
  ELSE IF After(k) = classified[k] THEN "none"
  ELSE "other"

\* C12 (rule-1 fall-through): a line that does not begin with
\* "Program log:" has the stack effect of rules 2a-2d (push of the target,
\* push of the generic marker, pop, none, or IndexError) whether the target
\* or another program is on top, and produces no decoder or sink call; a
\* line that begins with "Program log:" and is handled with the target on
\* top never falls through to rules 2a-2d: it leaves the stack as it was
\* and never raises the IndexError of rule 2a.
C12_RuleOneFallThrough ==
  /\ \A k \in Handled :
       (input[k + 1] \notin AuthoredLines /\ classified[k] # <<>>)
         => /\ Effect(k) = Rule2Effect(input[k + 1])
            /\ Raised(k) => error = "IndexError"
            /\ DecoderCallsAt(k + 1) = {}
            /\ SinkCallsAt(k + 1) = {}
  /\ \A k \in Handled :
       (input[k + 1] \in AuthoredLines /\ TargetOnTop(classified[k]))
         => /\ After(k) = classified[k]
            /\ Raised(k) => error # "IndexError"

\* C12 witness: with the target on top, a success line has fallen through
\* to rules 2a-2d and popped, after an undecodable "Program log:" line was
\* handled by rule 1.
C12_Witness ==
  \E j, k \in Handled :
    /\ j < k
    /\ TargetOnTop(classified[j])
    /\ input[j + 1] = lnLogBad
    /\ TargetOnTop(classified[k])
    /\ input[k + 1] \in SuccessLines
    /\ Effect(k) = "pop"

\* ------------------------------------------------------------------ C13
\* C13 (invocation-start effect): a handled line whose log-start contains
\* "invoke" raises nothing and deepens the stack by exactly one frame; the
\* new top is the target exactly when the line is
\* "Program <target> invoke [..", and the generic marker "cpi", which is
\* not the target, for every other program; while that marker is on top
\* nothing is handed to the decoder.
C13_InvocationStart ==
  /\ kwCpi # program_id
  /\ \A k \in Handled :
       input[k + 1] \in StartLines
         => /\ ~Raised(k)
            /\ Len(After(k)) = Len(classified[k]) + 1
            /\ SubSeq(After(k), 1, Len(classified[k])) = classified[k]
            /\ (After(k)[Len(After(k))] = program_id)
                 <=> (input[k + 1] = TargetStart)
            /\ input[k + 1] # TargetStart => After(k)[Len(After(k))] = kwCpi
  /\ \A k \in Handled :
       (classified[k] # <<>> /\ classified[k][Len(classified[k])] = kwCpi)
         => DecoderCallsAt(k + 1) = {}

\* C13 witness: another program was invoked, and the target was invoked
\* from under the generic frame and is on top after it.
C13_Witness ==
  \E j, k \in Handled :
    /\ input[j + 1] \in StartLines \ {TargetStart}
    /\ input[k + 1] = TargetStart
    /\ classified[k] # <<>>
    /\ classified[k][Len(classified[k])] = kwCpi
    /\ After(k)[Len(After(k))] = program_id

\* ------------------------------------------------------------------ C14
\* the value of `log` once the iteration for input[i] is over
NextLog(i) == IF i + 1 <= Len(input) THEN Some(input[i + 1]) ELSE None

\* C14 (unrelated lines are a no-op): a handled line
\* "Program <id> <token> ..." whose token is not "success" and whose
\* log-start does not contain "invoke" raises nothing, leaves the stack as
\* it was, causes no decoder call and no sink call, and the scan moves on
\* to the next line, whatever is on top of the stack (the empty stack
\* included).
C14_UnrelatedNoOp ==
  \A k \in Handled :
    input[k + 1] \in UnrelatedLines
      => /\ ~Raised(k)
         /\ After(k) = classified[k]
         /\ DecoderCallsAt(k + 1) = {}
         /\ SinkCallsAt(k + 1) = {}
         /\ k = Len(classified) => log = NextLog(k + 1)
         /\ k < Len(classified) => handled[k + 1] = input[k + 2]

\* C14 witness: "Program B consumed 5 units" was passed over once with the
\* target on top and once with another frame on top, and the scan went on.
C14_Witness ==
  \E j, k \in Handled :
    /\ input[j + 1] = lnConsumedB
    /\ input[k + 1] = lnConsumedB
    /\ TargetOnTop(classified[j])
    /\ classified[k] # <<>>
    /\ ~TargetOnTop(classified[k])
    /\ k < Len(classified)

\* ------------------------------------------------------------------ C15
\* C15 (line consumption and termination): the scanner hands out the lines
\* of the input in input order, one per call, and None once they are used
\* up.  The first line only seeds the stack; after it, the lines already
\* given to handle_log, the current line and the lines still in the
\* scanner are, in this order, the rest of the input, so every later line
\* is handled at most once, in order, and all of them exactly once when
\* parse_logs returns.  The loop makes at most one iteration per line
\* after the first.
C15_LineConsumption ==
  /\ pc = "init" => (logs = input /\ handled = <<>>)
  /\ (pc = "error" /\ handled = <<>>)
       => logs = SubSeq(input, 2, Len(input))
  /\ pc = "loop"
       => /\ handled \o log \o logs = Tail(input)
          /\ log = None => logs = <<>>
  /\ (pc = "error" /\ handled # <<>>)
       => /\ handled \o logs = Tail(input)
          /\ log = Some(handled[Len(handled)])
  /\ pc = "done" => (handled = Tail(input) /\ log = None /\ logs = <<>>)
  /\ Len(classified) = Len(handled)
  /\ Len(handled) <= Len(input) - 1 \/ handled = <<>>
  /\ pc \in {"loop", "done"} => input # <<>>

\* C15 witness: parse_logs returned after a scan of the longest input, each
\* line after the first handled once.
C15_Witness ==
  /\ pc = "done"
  /\ Len(input) = MaxLogs
  /\ handled = Tail(input)

\* ------------------------------------------------------------------ C16
\* C16 ("Program log:" under a non-target frame aborts): a line that
\* begins with "Program log:" and is handled while the top of the stack is
\* not the target, or the stack is empty, makes parse_logs raise
\* IndexError: no line after it is given to handle_log, the lines after it
\* stay in the scanner, and the sink holds only events of earlier lines.
C16_ForeignLogAborts ==
  \A k \in Handled :
    (handled[k] \in AuthoredLines /\ ~TargetOnTop(classified[k]))
      => /\ pc = "error"
         /\ error = "IndexError"
         /\ Len(handled) = k
         /\ logs = SubSeq(input, k + 2, Len(input))
         /\ \A j \in 1..Len(sink) : sink[j].at < k + 1

\* C16 witness: parse_logs raised on a "Program log:" line met on the empty
\* stack, with lines left unread.
C16_Witness ==
  /\ pc = "error"
  /\ handled # <<>>
  /\ handled[Len(handled)] \in AuthoredLines
  /\ classified[Len(classified)] = <<>>
  /\ logs # <<>>

\* ------------------------------------------------------------------ C17
\* C17 (the empty stack counts as "non-target on top"): the pop that
\* empties the stack raises nothing and the scan goes on; a line handled
\* on the empty stack is classified by rules 2a-2d alone: nothing is
\* decoded or delivered, an invocation-start or unrelated line has the
\* effect of rules 2a-2d, and an exception comes only from the lines rules
\* 2a-2d or the pop reject (a "Program log:" line, a line without marker, a
\* success line); "Program <target> invoke [1]" on the empty stack makes
\* the target the only frame, and an event line right after it is
\* delivered.
C17_EmptyStackIsNonTarget ==
  /\ \A k \in Handled :
       (classified[k] # <<>> /\ handled[k] \in SuccessLines
          /\ Len(classified[k]) = 1)
         => /\ ~Raised(k)
            /\ After(k) = <<>>
            /\ k = Len(classified) => log = NextLog(k + 1)
  /\ \A k \in Handled :
       classified[k] = <<>>
         => /\ DecoderCallsAt(k + 1) = {}
            /\ SinkCallsAt(k + 1) = {}
            /\ handled[k] \notin (SuccessLines \cup AuthoredLines)
                 => Effect(k) = Rule2Effect(handled[k])
            /\ Raised(k)
                 => /\ error = "IndexError"
                    /\ handled[k] \in
                         SuccessLines \cup AuthoredLines \cup NoMarkerLines
            /\ handled[k] = TargetStart => After(k) = <<program_id>>
            /\ (handled[k] = TargetStart /\ k + 1 \in Handled
                  /\ handled[k + 1] \in EventLines)
                 => Cardinality(SinkCallsAt(k + 2)) = 1

\* C17 witness: the outermost invocation closed, the target was invoked
\* again on the empty stack and its event was delivered.
C17_Witness ==
  /\ Len(classified) = 3
  /\ classified[2] = <<>>
  /\ handled[2] = TargetStart
  /\ handled[3] \in EventLines
  /\ Len(sink) = 1
  /\ sink[1].at = 4

\* ------------------------------------------------------------------ C18
\* the success line that names the target
TargetSuccess == IF program_id = idA THEN lnSuccessA ELSE lnSuccessB

\* C18 (pop ignores the named identifier): a "Program <X> success" line
\* handled on a non-empty stack removes exactly the top frame and counts as
\* one pop, whichever identifier X it names and whichever entry is on top:
\* a success line that names the target pops another program's frame, and
\* a success line that names another program pops the target's frame.
C18_PopIgnoresIdentifier ==
  /\ \A k \in Handled :
       (handled[k] \in SuccessLines /\ classified[k] # <<>>)
         => /\ ~Raised(k)
            /\ Len(After(k)) = Len(classified[k]) - 1
            /\ After(k) = SubSeq(classified[k], 1, Len(After(k)))
  /\ pops = Cardinality({k \in Handled : handled[k] \in SuccessLines
                                          /\ classified[k] # <<>>})

\* C18 witness: a success line naming the target popped the generic frame
\* and put the target on top, then a success line naming another program
\* popped the target.
C18_Witness ==
  \E j, k \in Handled :
    /\ j < k
    /\ handled[j] = TargetSuccess
    /\ classified[j][Len(classified[j])] = kwCpi
    /\ TargetOnTop(After(j))
    /\ handled[k] \in SuccessLines \ {TargetSuccess}
    /\ TargetOnTop(classified[k])
    /\ ~TargetOnTop(After(k))

====
